---- MODULE Spec2Model ----
(***************************************************************************)
(* The interaction core of the canvas wizard (App): step navigation, the   *)
(* answer map, the field identifiers, the export/import codec, the         *)
(* asynchronous file reads of handleFiles, the drag and drop listeners on  *)
(* the window and the auto-dismissing status message.                      *)
(*                                                                         *)
(* Conventions.  A JS string is a TLA+ string; only the input of slugify   *)
(* is taken apart, so a question is a sequence of one-character strings.   *)
(* A JS number is a record [k, x]: k is "fin", "+inf", "-inf" or "nan" and *)
(* x counts tenths (Unit == 10 is the number 1), which is enough to hold   *)
(* the fractional literals a document can carry.  A JS value is a tagged   *)
(* record; an object keeps its own properties as a sequence of [k, v] in   *)
(* insertion order.  A text is the sequence of JSON tokens it lexes to.    *)
(*                                                                         *)
(* A handler runs to completion and React commits the render it causes,    *)
(* with the cleanup and the body of the status effect, before the next     *)
(* event is taken: one action is one handler together with that commit.    *)
(* SpecAtomic alone takes the import continuation setter by setter.        *)
(***************************************************************************)
EXTENDS Integers, Sequences, FiniteSets, TLC

(***************************************************************************)
(* JS numbers                                                              *)
(***************************************************************************)
Unit == 10

Fin(x) == [k |-> "fin", x |-> x]

Num(n) == Fin(n * Unit)

PosInf == [k |-> "+inf", x |-> 0]

NegInf == [k |-> "-inf", x |-> 0]

NaN == [k |-> "nan", x |-> 0]

\* a < b on numbers other than NaN
NumLess(a, b) ==
    CASE a.k = "-inf" -> b.k # "-inf"
      [] a.k = "+inf" -> FALSE
      [] OTHER -> \/ b.k = "+inf"
                  \/ b.k = "fin" /\ a.x < b.x

MathMin(a, b) ==
    IF a.k = "nan" \/ b.k = "nan" THEN NaN
    ELSE IF NumLess(b, a) THEN b ELSE a

MathMax(a, b) ==
    IF a.k = "nan" \/ b.k = "nan" THEN NaN
    ELSE IF NumLess(a, b) THEN b ELSE a

NumberIsNaN(a) == a.k = "nan"

\* a + n for an integer n
NumPlus(a, n) == IF a.k = "fin" THEN Fin(a.x + n * Unit) ELSE a

IsInteger(a) == a.k = "fin" /\ a.x % Unit = 0

(***************************************************************************)
(* JS values                                                               *)
(***************************************************************************)
Undefined == [t |-> "undefined"]

Null == [t |-> "null"]

JBool(b) == [t |-> "bool", b |-> b]

JNum(n) == [t |-> "num", n |-> n]

JStr(s) == [t |-> "str", s |-> s]

JArr(a) == [t |-> "arr", a |-> a]

JObj(o) == [t |-> "obj", o |-> o]

TypeOf(v) ==
    CASE v.t = "undefined" -> "undefined"
      [] v.t = "bool" -> "boolean"
      [] v.t = "num" -> "number"
      [] v.t = "str" -> "string"
      [] OTHER -> "object"

\* ToBoolean: what `!v` negates
Truthy(v) ==
    CASE v.t \in {"undefined", "null"} -> FALSE
      [] v.t = "bool" -> v.b
      [] v.t = "num" -> ~(v.n.k = "nan" \/ (v.n.k = "fin" /\ v.n.x = 0))
      [] v.t = "str" -> v.s # ""
      [] OTHER -> TRUE

Keys(o) == {o[i].k : i \in 1..Len(o)}

\* the own property `key` of a property list
Own(o, key) == o[CHOOSE i \in 1..Len(o) : o[i].k = key].v

\* v.key for a key no prototype defines, on a value that is not null or undefined
Get(v, key) ==
    IF v.t = "obj" /\ key \in Keys(v.o) THEN Own(v.o, key) ELSE Undefined

\* CreateDataProperty: a property list with own property key = val
\* (an existing key keeps its place)
Define(o, key, val) ==
    IF key \in Keys(o)
    THEN [i \in 1..Len(o) |-> IF o[i].k = key THEN [k |-> key, v |-> val] ELSE o[i]]
    ELSE Append(o, [k |-> key, v |-> val])

\* the characters of a string; the strings the model enumerates as a
\* document's `answers` are at most one character long
CharsOf(s) == IF s = "" THEN <<>> ELSE <<s>>

\* Object.entries(v) of a value that is not null or undefined
ObjectEntries(v) ==
    CASE v.t = "obj" -> v.o
      [] v.t = "arr" -> [i \in 1..Len(v.a) |-> [k |-> ToString(i - 1), v |-> v.a[i]]]
      [] v.t = "str" -> [i \in 1..Len(CharsOf(v.s)) |->
                            [k |-> ToString(i - 1), v |-> JStr(CharsOf(v.s)[i])]]
      [] OTHER -> <<>>

\* the property map an object denotes, order aside
AsMap(o) == [key \in Keys(o) |-> Own(o, key)]

(***************************************************************************)
(* JSON texts: token sequences, JSON.parse and JSON.stringify              *)
(***************************************************************************)
P(c) == [t |-> c]

S(s) == [t |-> "str", s |-> s]

\* the number literal m * 10^e
N(m, e) == [t |-> "num", m |-> m, e |-> e]

\* largest decimal exponent of a finite double
MaxExp10 == 308

\* the double a number literal denotes: a literal beyond the range of a
\* double is an infinity; the model's finite literals are whole or in tenths
LiteralValue(m, e) ==
    IF m = 0 THEN Fin(0)
    ELSE IF e > MaxExp10 THEN (IF m > 0 THEN PosInf ELSE NegInf)
    ELSE IF e = -1 THEN Fin(m)
    ELSE Fin(m * (10 ^ e) * Unit)

ParseFail == [ok |-> FALSE, v |-> Undefined, i |-> 0]

ParseOk(v, i) == [ok |-> TRUE, v |-> v, i |-> i]

RECURSIVE ParseValue(_, _)
RECURSIVE ParseMembers(_, _, _)
RECURSIVE ParseElements(_, _, _)

\* value := string | number | true | false | null | object | array
ParseValue(toks, i) ==
    IF i > Len(toks) THEN ParseFail
    ELSE LET tk == toks[i] IN
         CASE tk.t = "str" -> ParseOk(JStr(tk.s), i + 1)
           [] tk.t = "num" -> ParseOk(JNum(LiteralValue(tk.m, tk.e)), i + 1)
           [] tk.t = "null" -> ParseOk(Null, i + 1)
           [] tk.t = "true" -> ParseOk(JBool(TRUE), i + 1)
           [] tk.t = "false" -> ParseOk(JBool(FALSE), i + 1)
           [] tk.t = "{" ->
                IF i + 1 <= Len(toks) /\ toks[i + 1].t = "}"
                THEN ParseOk(JObj(<<>>), i + 2)
                ELSE ParseMembers(toks, i + 1, <<>>)
           [] tk.t = "[" ->
                IF i + 1 <= Len(toks) /\ toks[i + 1].t = "]"
                THEN ParseOk(JArr(<<>>), i + 2)
                ELSE ParseElements(toks, i + 1, <<>>)
           [] OTHER -> ParseFail

\* members := string ":" value ("," members | "}"); a repeated key keeps
\* its last value
ParseMembers(toks, i, acc) ==
    IF i + 1 > Len(toks) \/ toks[i].t # "str" \/ toks[i + 1].t # ":"
    THEN ParseFail
    ELSE LET r == ParseValue(toks, i + 2) IN
         IF ~r.ok \/ r.i > Len(toks) THEN ParseFail
         ELSE LET acc2 == Define(acc, toks[i].s, r.v) IN
              CASE toks[r.i].t = "}" -> ParseOk(JObj(acc2), r.i + 1)
                [] toks[r.i].t = "," -> ParseMembers(toks, r.i + 1, acc2)
                [] OTHER -> ParseFail

\* elements := value ("," elements | "]")
ParseElements(toks, i, acc) ==
    LET r == ParseValue(toks, i) IN
    IF ~r.ok \/ r.i > Len(toks) THEN ParseFail
    ELSE CASE toks[r.i].t = "]" -> ParseOk(JArr(Append(acc, r.v)), r.i + 1)
           [] toks[r.i].t = "," -> ParseElements(toks, r.i + 1, Append(acc, r.v))
           [] OTHER -> ParseFail

\* JSON.parse(text): [ok |-> TRUE, v |-> value], or ok = FALSE for the
\* SyntaxError it throws
JSONparse(text) ==
    LET r == ParseValue(text, 1) IN
    IF r.ok /\ r.i = Len(text) + 1 THEN [ok |-> TRUE, v |-> r.v]
    ELSE [ok |-> FALSE, v |-> Undefined]

RECURSIVE Stringify(_)
RECURSIVE StringifyMembers(_)
RECURSIVE StringifyElements(_)

\* the tokens of JSON.stringify(v); a number that is not finite is written
\* null, as is an undefined array element
Stringify(v) ==
    CASE v.t = "str" -> <<S(v.s)>>
      [] v.t = "num" ->
            IF v.n.k # "fin" THEN <<P("null")>>
            ELSE IF v.n.x % Unit = 0 THEN <<N(v.n.x \div Unit, 0)>>
            ELSE <<N(v.n.x, -1)>>
      [] v.t = "bool" -> <<P(IF v.b THEN "true" ELSE "false")>>
      [] v.t = "obj" -> <<P("{")>> \o StringifyMembers(v.o) \o <<P("}")>>
      [] v.t = "arr" -> <<P("[")>> \o StringifyElements(v.a) \o <<P("]")>>
      [] OTHER -> <<P("null")>>

\* the properties of an object; one whose value is undefined is left out
StringifyMembers(o) ==
    IF o = <<>> THEN <<>>
    ELSE LET rest == StringifyMembers(Tail(o)) IN
         IF Head(o).v.t = "undefined" THEN rest
         ELSE <<S(Head(o).k), P(":")>> \o Stringify(Head(o).v)
                \o (IF rest = <<>> THEN <<>> ELSE <<P(",")>> \o rest)

StringifyElements(a) ==
    IF a = <<>> THEN <<>>
    ELSE Stringify(Head(a))
           \o (IF Tail(a) = <<>> THEN <<>> ELSE <<P(",")>> \o StringifyElements(Tail(a)))

(***************************************************************************)
(* The form definition and the field identifiers                           *)
(***************************************************************************)
\* the pages of form-pages.json, each with the questions of its items
formPages ==
    << [title |-> "Identidad", items |-> << <<"N", "o", "m", "b", "r", "e">> >>],
       [title |-> "Objetivo", items |-> << <<"M", "e", "t", "a">> >>] >>

summaryStepIndex == Len(formPages)

UpperCase ==
    <<"A", "B", "C", "D", "E", "F", "G", "H", "I", "J", "K", "L", "M",
      "N", "O", "P", "Q", "R", "S", "T", "U", "V", "W", "X", "Y", "Z">>

LowerCase ==
    <<"a", "b", "c", "d", "e", "f", "g", "h", "i", "j", "k", "l", "m",
      "n", "o", "p", "q", "r", "s", "t", "u", "v", "w", "x", "y", "z">>

Digits == {"0", "1", "2", "3", "4", "5", "6", "7", "8", "9"}

Range(f) == {f[i] : i \in DOMAIN f}

\* characters outside ASCII are written by their code point; these are the
\* precomposed letters the model knows, with base letter and combining mark
Precomposed ==
    [c \in {"U+00E9", "U+00F1", "U+00C9"} |->
        CASE c = "U+00E9" -> <<"e", "U+0301">>
          [] c = "U+00F1" -> <<"n", "U+0303">>
          [] c = "U+00C9" -> <<"E", "U+0301">>]

\* the combining marks (U+0300 to U+036F) the model knows
CombiningMarks == {"U+0301", "U+0303"}

\* String.prototype.toLowerCase of one character
ToLowerChar(c) ==
    IF c \in Range(UpperCase)
    THEN LowerCase[CHOOSE i \in 1..Len(UpperCase) : UpperCase[i] = c]
    ELSE IF c = "U+00C9" THEN "U+00E9"
    ELSE c

RECURSIVE NormalizeNFD(_)
NormalizeNFD(cs) ==
    IF cs = <<>> THEN <<>>
    ELSE (IF Head(cs) \in DOMAIN Precomposed THEN Precomposed[Head(cs)]
          ELSE <<Head(cs)>>) \o NormalizeNFD(Tail(cs))

\* .replace(/[^a-z0-9]+/g, '-'): every run outside [a-z0-9] becomes one hyphen
RECURSIVE HyphenateRuns(_, _)
HyphenateRuns(cs, inRun) ==
    IF cs = <<>> THEN <<>>
    ELSE IF Head(cs) \in Range(LowerCase) \cup Digits
         THEN <<Head(cs)>> \o HyphenateRuns(Tail(cs), FALSE)
         ELSE (IF inRun THEN <<>> ELSE <<"-">>) \o HyphenateRuns(Tail(cs), TRUE)

\* .replace(/(^-|-$)/g, ''): a hyphen at the start and one at the end
\* .replace(/(^-|-$)/g, '') without the alternative -$
TrimLeadingHyphen(cs) == IF cs # <<>> /\ Head(cs) = "-" THEN Tail(cs) ELSE cs

TrimHyphens(cs) ==
    LET a == IF cs # <<>> /\ Head(cs) = "-" THEN Tail(cs) ELSE cs
    IN  IF a # <<>> /\ a[Len(a)] = "-" THEN SubSeq(a, 1, Len(a) - 1) ELSE a

RECURSIVE Join(_)
Join(cs) == IF cs = <<>> THEN "" ELSE Head(cs) \o Join(Tail(cs))

slugify(value) ==
    LET lower == [i \in 1..Len(value) |-> ToLowerChar(value[i])]
        stripped == SelectSeq(NormalizeNFD(lower), LAMBDA c : c \notin CombiningMarks)
    IN  Join(TrimHyphens(HyphenateRuns(stripped, FALSE)))

makeFieldId(pageIndex, question) ==
    "step-" \o ToString(pageIndex) \o "-" \o slugify(question)

\* the identifiers of the textareas rendered at a step: those of the current
\* page; the summary, and a step that indexes no page, render none
RenderedFieldIds(step) ==
    IF IsInteger(step) /\ step # Num(summaryStepIndex)
         /\ (step.x \div Unit) + 1 \in 1..Len(formPages)
    THEN {makeFieldId(step.x \div Unit, q) :
             q \in Range(formPages[(step.x \div Unit) + 1].items)}
    ELSE {}

(***************************************************************************)
(* The state of App                                                        *)
(***************************************************************************)
VARIABLES
    currentStep,    \* useState(0): a JS number
    answers,        \* useState({}): the own properties of the answers object
    statusMessage,  \* useState(null): NoMessage, or a message object
    dragActive,     \* useState(false)
    timers,         \* the pending timeouts, each named by the message whose effect set it
    reads,          \* the handleFiles calls awaiting files[0].text(), in start order
    running,        \* the position of the handleFiles call that is on the stack
    listeners,      \* the listeners registered on the window: [type, fn]
    dragEffect,     \* the drag effect: whether a run of it is live, and the runs so far
    event,          \* the event handled in the step, as its handler left it
    download,       \* the last exported document the user kept as a file
    call,           \* a call of makeFieldId: its arguments and what it returned
    settled         \* a record of the reads settled in the current burst of imports

\* settled is an observer's record: no handler reads or writes it, and each
\* specification says what becomes of it
vars ==
    <<currentStep, answers, statusMessage, dragActive, timers, reads, running,
      listeners, dragEffect, event, download, call, settled>>

\* identities for message objects and their timeouts
MaxMessageIds == 3

\* handleFiles calls that may await a read at once
MaxReads == 2

NoMessage == [type |-> "null", text |-> "", id |-> 0]

NoDownload == [text |-> <<>>]

ExportOkText == "Descargaste un archivo con toda la informacion."

ExportFailedText == "No se pudo exportar el archivo."

ImportOkText == "Archivo importado correctamente."

ImportFailedText == "No reconocemos el archivo. Asegurate de exportarlo desde la app."

\* the identity of the next message object: one no live message or timeout bears
FreeIds == (1..MaxMessageIds) \ (timers \cup {statusMessage.id})

FreshId == CHOOSE i \in FreeIds : \A j \in FreeIds : i <= j

setSuccess(text) == [type |-> "success", text |-> text, id |-> FreshId]

setError(text) == [type |-> "error", text |-> text, id |-> FreshId]

\* the effect without its cleanup: no timeout is ever cleared
StatusEffectNoCleanup(prev, next, pending) ==
    IF next = prev \/ next = NoMessage THEN pending ELSE pending \cup {next.id}

\* the effect without its body: no timeout is ever set
StatusEffectNoTimeout(prev, next, pending) ==
    IF next = prev \/ prev = NoMessage THEN pending ELSE pending \ {prev.id}

\* useEffect(..., [statusMessage]) at the commit that takes the message from
\* prev to next, on the timeouts `pending`: the cleanup of the previous run
\* clears its timeout, then the body sets one for a message that is not null
StatusEffect(prev, next, pending) ==
    IF next = prev THEN pending
    ELSE LET cleaned == IF prev = NoMessage THEN pending ELSE pending \ {prev.id}
         IN  IF next = NoMessage THEN cleaned ELSE cleaned \cup {next.id}

\* setStatusMessage(next) and the commit that follows
Show(next) ==
    /\ statusMessage' = next
    /\ timers' = StatusEffect(statusMessage, next, timers)

\* Math.max(0, Math.min(stepIndex, summaryStepIndex))
Clamp(stepIndex) == MathMax(Num(0), MathMin(stepIndex, Num(summaryStepIndex)))

isSummaryStep == currentStep = Num(summaryStepIndex)

(***************************************************************************)
(* Navigation and edits                                                    *)
(***************************************************************************)
\* handleInputChange without the spread of prev: setAnswers({ [fieldId]: value })
handleInputChangeReplacing(fieldId, value) ==
    /\ fieldId \in RenderedFieldIds(currentStep)
    /\ answers' = <<[k |-> fieldId, v |-> JStr(value)]>>
    /\ UNCHANGED <<currentStep, statusMessage, dragActive, timers, reads, download>>

handleInputChange(fieldId, value) ==
    /\ fieldId \in RenderedFieldIds(currentStep)
    /\ answers' = Define(answers, fieldId, JStr(value))
    /\ UNCHANGED <<currentStep, statusMessage, dragActive, timers, reads, download>>

goToStep(stepIndex) ==
    /\ currentStep' = Clamp(stepIndex)
    /\ UNCHANGED <<answers, statusMessage, dragActive, timers, reads, download>>

(***************************************************************************)
(* Export                                                                  *)
(***************************************************************************)
\* the payload with the step counted from 1, as the page counter shows it
ExportPayloadFromOne(exportedAt) ==
    JObj(<< [k |-> "version", v |-> JNum(Num(1))],
            [k |-> "exportedAt", v |-> JStr(exportedAt)],
            [k |-> "currentStep", v |-> JNum(NumPlus(currentStep, 1))],
            [k |-> "answers", v |-> JObj(answers)] >>)

ExportPayload(exportedAt) ==
    JObj(<< [k |-> "version", v |-> JNum(Num(1))],
            [k |-> "exportedAt", v |-> JStr(exportedAt)],
            [k |-> "currentStep", v |-> JNum(currentStep)],
            [k |-> "answers", v |-> JObj(answers)] >>)

\* throws: building or offering the file fails inside the try block;
\* kept: the user keeps the downloaded file
handleExport(exportedAt, throws, kept) ==
    /\ FreeIds # {}
    /\ IF throws
       THEN /\ Show(setError(ExportFailedText))
            /\ UNCHANGED download
       ELSE /\ Show(setSuccess(ExportOkText))
            /\ download' = IF kept
                           THEN [text |-> Stringify(ExportPayload(exportedAt)),
                                 step |-> currentStep, answers |-> answers]
                           ELSE download
    /\ UNCHANGED <<currentStep, answers, dragActive, reads>>

\* handleNext without the test of isSummaryStep
handleNextAlwaysAdvances(exportedAt, throws, kept) ==
    goToStep(NumPlus(currentStep, 1))

handleNext(exportedAt, throws, kept) ==
    IF isSummaryStep
    THEN handleExport(exportedAt, throws, kept)
    ELSE goToStep(NumPlus(currentStep, 1))

\* handleBack without the clamp of goToStep
handleBackUnclamped ==
    /\ currentStep' = NumPlus(currentStep, -1)
    /\ UNCHANGED <<answers, statusMessage, dragActive, timers, reads, download>>

handleBack == goToStep(NumPlus(currentStep, -1))

(***************************************************************************)
(* Import                                                                  *)
(***************************************************************************)
\* acc[key] = value on a plain object, for a string value: __proto__ names
\* the accessor of Object.prototype, whose setter ignores a string
Assign(acc, key, value) ==
    IF key = "__proto__" THEN acc ELSE Define(acc, key, value)

RECURSIVE SanitizeKeepAll(_, _)
\* Sanitize without the typeof test
SanitizeKeepAll(entries, acc) ==
    IF entries = <<>> THEN acc
    ELSE SanitizeKeepAll(Tail(entries),
                         Assign(acc, Head(entries).k, Head(entries).v))

RECURSIVE Sanitize(_, _)
\* the reduce over Object.entries(parsed.answers)
Sanitize(entries, acc) ==
    IF entries = <<>> THEN acc
    ELSE Sanitize(Tail(entries),
                  IF TypeOf(Head(entries).v) = "string"
                  THEN Assign(acc, Head(entries).k, Head(entries).v)
                  ELSE acc)

\* importedStep without the typeof test: Math.min coerces its argument
importedStepCoerced(cs) ==
    CASE cs.t = "num" /\ ~NumberIsNaN(cs.n) ->
            MathMax(Num(0), MathMin(cs.n, Num(summaryStepIndex)))
      [] cs.t = "bool" /\ cs.b -> Num(1)
      [] cs.t = "str" /\ cs.s = "1" -> Num(1)
      [] OTHER -> Num(0)

importedStep(cs) ==
    IF TypeOf(cs) = "number" /\ ~NumberIsNaN(cs.n)
    THEN MathMax(Num(0), MathMin(cs.n, Num(summaryStepIndex)))
    ELSE Num(0)

ImportThrew == [ok |-> FALSE, answers |-> <<>>, step |-> Num(0)]

\* parseImport with the answers defaulted: parsed.answers ?? {}
parseImportDefaulted(text) ==
    LET j == JSONparse(text) IN
    IF ~j.ok THEN ImportThrew
    ELSE IF ~Truthy(j.v) \/ TypeOf(j.v) # "object"
    THEN ImportThrew
    ELSE [ok |-> TRUE,
          answers |-> IF Get(j.v, "answers").t \in {"undefined", "null"} THEN <<>>
                      ELSE Sanitize(ObjectEntries(Get(j.v, "answers")), <<>>),
          step |-> importedStep(Get(j.v, "currentStep"))]

\* parseImport(text) up to its three setters: what it is about to set, or
\* ok = FALSE when JSON.parse or the shape test throws
parseImport(text) ==
    LET j == JSONparse(text) IN
    IF ~j.ok THEN ImportThrew
    ELSE IF ~Truthy(j.v) \/ TypeOf(j.v) # "object" \/ ~Truthy(Get(j.v, "answers"))
    THEN ImportThrew
    ELSE [ok |-> TRUE,
          answers |-> Sanitize(ObjectEntries(Get(j.v, "answers")), <<>>),
          step |-> importedStep(Get(j.v, "currentStep"))]

\* handleFiles(files) up to the await: nothing for an empty list, else a
\* read of the first file starts
handleFiles(files) ==
    /\ IF Len(files) = 0
       THEN UNCHANGED reads
       ELSE /\ Len(reads) < MaxReads
            /\ reads' = Append(reads, files[1])
    /\ UNCHANGED <<currentStep, answers, statusMessage, timers, download>>

Remove(seq, i) == SubSeq(seq, 1, i - 1) \o SubSeq(seq, i + 1, Len(seq))

\* handleFiles with a catch that only logs: a failure shows no message
ReadSettlesSilently(i) ==
    /\ i \in 1..Len(reads)
    /\ FreeIds # {}
    /\ reads' = Remove(reads, i)
    /\ LET r == IF reads[i].readable THEN parseImport(reads[i].text) ELSE ImportThrew
       IN  IF r.ok
           THEN /\ answers' = r.answers
                /\ currentStep' = Clamp(r.step)
                /\ Show(setSuccess(ImportOkText))
           ELSE UNCHANGED <<currentStep, answers, statusMessage, timers>>
    /\ UNCHANGED <<dragActive, download>>

\* handleFiles with a generation check: only the read started last is
\* applied, an older one is dropped when it settles
ReadSettlesLatestOnly(i) ==
    /\ i \in 1..Len(reads)
    /\ FreeIds # {}
    /\ reads' = Remove(reads, i)
    /\ LET r == IF reads[i].readable THEN parseImport(reads[i].text) ELSE ImportThrew
       IN  IF i < Len(reads)
           THEN UNCHANGED <<currentStep, answers, statusMessage, timers>>
           ELSE IF r.ok
           THEN /\ answers' = r.answers
                /\ currentStep' = Clamp(r.step)
                /\ Show(setSuccess(ImportOkText))
           ELSE /\ Show(setError(ImportFailedText))
                /\ UNCHANGED <<currentStep, answers>>
    /\ UNCHANGED <<dragActive, download>>

\* handleFiles whose import merges: setAnswers((prev) => ({...prev, ...sanitizedAnswers}))
ReadSettlesMerging(i) ==
    /\ i \in 1..Len(reads)
    /\ FreeIds # {}
    /\ reads' = Remove(reads, i)
    /\ LET r == IF reads[i].readable THEN parseImport(reads[i].text) ELSE ImportThrew
       IN  IF r.ok
           THEN /\ answers' = Sanitize(r.answers, answers)
                /\ currentStep' = Clamp(r.step)
                /\ Show(setSuccess(ImportOkText))
           ELSE /\ Show(setError(ImportFailedText))
                /\ UNCHANGED <<currentStep, answers>>
    /\ UNCHANGED <<dragActive, download>>

\* the rest of handleFiles when the read of reads[i] settles: text()
\* rejects, or parseImport runs on the text; the catch reports either failure
ReadSettles(i) ==
    /\ i \in 1..Len(reads)
    /\ FreeIds # {}
    /\ reads' = Remove(reads, i)
    /\ LET r == IF reads[i].readable THEN parseImport(reads[i].text) ELSE ImportThrew
       IN  IF r.ok
           THEN /\ answers' = r.answers
                /\ currentStep' = Clamp(r.step)
                /\ Show(setSuccess(ImportOkText))
           ELSE /\ Show(setError(ImportFailedText))
                /\ UNCHANGED <<currentStep, answers>>
    /\ UNCHANGED <<dragActive, download>>

(***************************************************************************)
(* The auto-dismiss timeout                                                *)
(***************************************************************************)
\* the callback of the timeout h: setStatusMessage(null)
TimerFires(h) ==
    /\ h \in timers
    /\ statusMessage' = NoMessage
    /\ timers' = StatusEffect(statusMessage, NoMessage, timers \ {h})
    /\ UNCHANGED <<currentStep, answers, dragActive, reads, download>>

(***************************************************************************)
(* The import continuation, setter by setter                               *)
(***************************************************************************)
\* no handleFiles call is on the stack: each is at its await, or returned
NotRunning == [at |-> "await"]

\* parseImport with an await before goToStep: the call is also suspended there
SuspendedBetweenSetters(at) == at \in {"await", "goToStep"}

\* the positions at which a handleFiles call is suspended, so that the event
\* loop takes the next event: its one await
Suspended(at) == at = "await"

\* the read of reads[i] settles and the call resumes: text() rejects or
\* parseImport throws and the catch reports it, or parseImport runs up to and
\* with setAnswers, each setter applied as it is called
ImportResumes(i) ==
    /\ running.at = "await"
    /\ i \in 1..Len(reads)
    /\ FreeIds # {}
    /\ reads' = Remove(reads, i)
    /\ LET r == IF reads[i].readable THEN parseImport(reads[i].text) ELSE ImportThrew
       IN  IF r.ok
           THEN /\ answers' = r.answers
                /\ running' = [at |-> "goToStep", step |-> r.step]
                /\ UNCHANGED <<currentStep, statusMessage, timers>>
           ELSE /\ Show(setError(ImportFailedText))
                /\ UNCHANGED <<currentStep, answers, running>>
    /\ UNCHANGED <<dragActive, download>>

\* parseImport goes on with goToStep(importedStep)
ImportGoesToStep ==
    /\ running.at = "goToStep"
    /\ currentStep' = Clamp(running.step)
    /\ running' = [at |-> "setSuccess"]
    /\ UNCHANGED <<answers, statusMessage, dragActive, timers, reads, download>>

\* parseImport ends with setSuccess, and handleFiles returns
ImportSetsSuccess ==
    /\ running.at = "setSuccess"
    /\ FreeIds # {}
    /\ Show(setSuccess(ImportOkText))
    /\ running' = NotRunning
    /\ UNCHANGED <<currentStep, answers, dragActive, reads, download>>

(***************************************************************************)
(* Drag and drop on the window                                             *)
(***************************************************************************)
\* event.dataTransfer is null
NoDataTransfer == [kind |-> "null"]

\* a drag data store: whether it holds a text item, and its file items
DataTransfer(text, files) == [kind |-> "data", text |-> text, files |-> files]

\* event.dataTransfer?.types ?? []
Types(dt) ==
    IF dt.kind = "null" THEN {}
    ELSE (IF dt.text THEN {"text/plain"} ELSE {})
            \cup (IF dt.files # <<>> THEN {"Files"} ELSE {})

\* event.dataTransfer?.files: the store can be read at the drop only
FilesOf(ev) ==
    IF ev.dataTransfer.kind = "null" \/ ev.type # "drop" THEN <<>>
    ELSE ev.dataTransfer.files

\* a drag event as the window dispatches it; relatedTarget is "null" or
\* names an element
DragEvent(type, dt, relatedTarget) ==
    [type |-> type, dataTransfer |-> dt, relatedTarget |-> relatedTarget,
     defaultPrevented |-> FALSE, dropEffect |-> "none"]

\* handleDragOver that looks for files in dataTransfer.files
handleDragOverByFiles(ev) ==
    /\ IF Len(FilesOf(ev)) = 0
       THEN /\ event' = ev
            /\ UNCHANGED dragActive
       ELSE /\ event' = [ev EXCEPT !.defaultPrevented = TRUE, !.dropEffect = "copy"]
            /\ dragActive' = TRUE
    /\ UNCHANGED <<currentStep, answers, statusMessage, timers, reads, download>>

handleDragOver(ev) ==
    /\ IF "Files" \notin Types(ev.dataTransfer)
       THEN /\ event' = ev
            /\ UNCHANGED dragActive
       ELSE /\ event' = [ev EXCEPT !.defaultPrevented = TRUE, !.dropEffect = "copy"]
            /\ dragActive' = TRUE
    /\ UNCHANGED <<currentStep, answers, statusMessage, timers, reads, download>>

handleDragLeave(ev) ==
    /\ event' = ev
    /\ dragActive' = IF ev.relatedTarget = "null" THEN FALSE ELSE dragActive
    /\ UNCHANGED <<currentStep, answers, statusMessage, timers, reads, download>>

\* handleDrop that forwards each dropped file
handleDropEveryFile(ev) ==
    IF Len(FilesOf(ev)) = 0
    THEN /\ event' = ev
         /\ dragActive' = FALSE
         /\ UNCHANGED <<currentStep, answers, statusMessage, timers, reads, download>>
    ELSE /\ event' = [ev EXCEPT !.defaultPrevented = TRUE]
         /\ dragActive' = FALSE
         /\ Len(reads) + Len(FilesOf(ev)) <= MaxReads
         /\ reads' = reads \o FilesOf(ev)
         /\ UNCHANGED <<currentStep, answers, statusMessage, timers, download>>

handleDrop(ev) ==
    IF Len(FilesOf(ev)) = 0
    THEN /\ event' = ev
         /\ dragActive' = FALSE
         /\ UNCHANGED <<currentStep, answers, statusMessage, timers, reads, download>>
    ELSE /\ event' = [ev EXCEPT !.defaultPrevented = TRUE]
         /\ dragActive' = FALSE
         /\ handleFiles(FilesOf(ev))

\* the three listeners one run of the drag effect creates
DragListeners(run) ==
    {[type |-> t, fn |-> run] : t \in {"dragover", "dragleave", "drop"}}

\* the body of the drag effect: the addEventListener calls
AddDragListeners(run, registered) == registered \cup DragListeners(run)

\* a cleanup that leaves the drop listener registered
RemoveDragListenersButDrop(run, registered) ==
    registered \ {[type |-> t, fn |-> run] : t \in {"dragover", "dragleave"}}

\* the cleanup of the drag effect: the removeEventListener calls
RemoveDragListeners(run, registered) == registered \ DragListeners(run)

\* the window dispatches ev: the listener the live run registered for its
\* type handles it; with no such listener nothing handles it
Dispatch(ev) ==
    IF dragEffect.live /\ [type |-> ev.type, fn |-> dragEffect.run] \in listeners
    THEN CASE ev.type = "dragover" -> handleDragOver(ev)
           [] ev.type = "dragleave" -> handleDragLeave(ev)
           [] ev.type = "drop" -> handleDrop(ev)
    ELSE /\ event' = ev
         /\ UNCHANGED <<currentStep, answers, statusMessage, dragActive, timers,
                        reads, download>>

(***************************************************************************)
(* Mounting and unmounting App                                             *)
(***************************************************************************)
\* mounts of App in a run of the model
MaxMounts == 3

\* App mounts: its state is that of the useState calls and the drag effect
\* runs; with no message the status effect sets no timeout
Mount ==
    /\ ~dragEffect.live
    /\ dragEffect.run < MaxMounts
    /\ dragEffect' = [live |-> TRUE, run |-> dragEffect.run + 1]
    /\ listeners' = AddDragListeners(dragEffect.run + 1, listeners)
    /\ currentStep' = Num(0)
    /\ answers' = <<>>
    /\ statusMessage' = NoMessage
    /\ dragActive' = FALSE
    /\ UNCHANGED <<timers, reads, running, download>>

\* App unmounts: the cleanups of both effects run and the state is
\* discarded; a read that is pending settles into an instance that is gone,
\* which React ignores
Unmount ==
    /\ dragEffect.live
    /\ dragEffect' = [dragEffect EXCEPT !.live = FALSE]
    /\ listeners' = RemoveDragListeners(dragEffect.run, listeners)
    /\ timers' = StatusEffect(statusMessage, NoMessage, timers)
    /\ currentStep' = Num(0)
    /\ answers' = <<>>
    /\ statusMessage' = NoMessage
    /\ dragActive' = FALSE
    /\ reads' = <<>>
    /\ UNCHANGED <<running, download>>

(***************************************************************************)
(* A call of makeFieldId                                                   *)
(***************************************************************************)
NoCall == [pageIndex |-> 0, question |-> <<>>, returned |-> <<>>]

\* calls of makeFieldId with the same arguments
MaxCalls == 2

\* makeFieldId is called with the arguments of `call`
CallMakeFieldId ==
    /\ Len(call.returned) < MaxCalls
    /\ call' = [call EXCEPT
                   !.returned = Append(@, makeFieldId(call.pageIndex, call.question))]

(***************************************************************************)
(* The environment: what the user types, clicks and drops                  *)
(***************************************************************************)
Values == {"", "Acme"}

AllFieldIds ==
    UNION {RenderedFieldIds(Num(p)) : p \in 0..(summaryStepIndex - 1)}

\* goToStep is called with a breadcrumb index, or with any other integer
StepInputs == (0..summaryStepIndex) \cup {-7, 99}

Timestamps == {"2025-01-01T00:00:00.000Z"}

\* {"answers": <a>, "currentStep": <c>} as a text
Doc(a, c) ==
    <<P("{"), S("answers"), P(":")>> \o a
        \o <<P(","), S("currentStep"), P(":")>> \o c \o <<P("}")>>

\* {"answers": <a>} as a text
DocAnswers(a) == <<P("{"), S("answers"), P(":")>> \o a \o <<P("}")>>

XY == <<P("{"), S("x"), P(":"), S("y"), P("}")>>

File(text) == [readable |-> TRUE, text |-> text]

\* a file whose text() rejects
UnreadableFile == [readable |-> FALSE, text |-> <<>>]

\* {"answers":{"x":"y","z":42},"currentStep":99}
ExampleFile ==
    File(Doc(<<P("{"), S("x"), P(":"), S("y"), P(","),
               S("z"), P(":"), N(42, 0), P("}")>>, <<N(99, 0)>>))

\* {"answers":{"x":"y"},"currentStep":1.5}
FractionFile == File(Doc(XY, <<N(15, -1)>>))

\* {"currentStep":1}
NoAnswersFile == File(<<P("{"), S("currentStep"), P(":"), N(1, 0), P("}")>>)

\* {"answers":   (cut short)
TruncatedFile == File(<<P("{"), S("answers"), P(":")>>)

\* {"answers":{"k":"v"},"currentStep":1}
StepOneFile ==
    File(Doc(<<P("{"), S("k"), P(":"), S("v"), P("}")>>, <<N(1, 0)>>))

OverlapFiles == {ExampleFile, StepOneFile, TruncatedFile}

\* the kept download as a file; origin records what was exported
DownloadFile ==
    [readable |-> TRUE, text |-> download.text,
     origin |-> [step |-> download.step, answers |-> download.answers]]

CoreFiles == {ExampleFile, FractionFile, TruncatedFile, UnreadableFile}

\* texts that are not well formed, values that are not objects, objects
\* without usable answers
RejectedFiles ==
    { TruncatedFile, NoAnswersFile,
      File(<<>>),
      File(<<S("x"), P(":"), S("y")>>),
      File(<<N(42, 0)>>),
      File(<<S("abc")>>),
      File(<<P("null")>>),
      File(<<P("true")>>),
      File(<<P("["), P("]")>>),
      File(<<P("["), P("{"), S("answers"), P(":"), P("{"), P("}"), P("}"), P("]")>>),
      File(<<P("{"), P("}")>>),
      File(Doc(<<P("null")>>, <<N(1, 0)>>)),
      File(Doc(<<S("")>>, <<N(1, 0)>>)),
      File(Doc(<<N(0, 0)>>, <<N(1, 0)>>)),
      File(Doc(<<P("false")>>, <<N(1, 0)>>)) }

\* documents with answers: entries of every type, and every shape of currentStep
AcceptedFiles ==
    { ExampleFile, FractionFile,
      File(DocAnswers(XY)),
      File(DocAnswers(<<P("{"), P("}")>>)),
      File(DocAnswers(<<P("{"), S("a"), P(":"), P("null"), P(","),
                        S("b"), P(":"), P("{"), S("c"), P(":"), S("d"), P("}"), P(","),
                        S("e"), P(":"), N(7, 0), P(","),
                        S("f"), P(":"), S(""), P(","),
                        S("g"), P(":"), P("["), S("h"), P("]"), P(","),
                        S("i"), P(":"), P("true"), P("}")>>)),
      File(DocAnswers(<<P("{"), S("__proto__"), P(":"), S("x"), P(","),
                        S("k"), P(":"), S("v"), P("}")>>)),
      File(DocAnswers(<<P("["), S("p"), P(","), N(3, 0), P("]")>>)),
      File(DocAnswers(<<S("y")>>)),
      File(DocAnswers(<<N(42, 0)>>)),
      File(DocAnswers(<<P("true")>>)),
      File(Doc(XY, <<N(1, 0)>>)),
      File(Doc(XY, <<N(-5, 0)>>)),
      File(Doc(XY, <<N(5, -1)>>)),
      File(Doc(XY, <<N(1, 999)>>)),
      File(Doc(XY, <<N(-1, 999)>>)),
      File(Doc(XY, <<S("1")>>)),
      File(Doc(XY, <<P("null")>>)),
      File(Doc(XY, <<P("true")>>)),
      File(Doc(XY, <<P("{"), P("}")>>)) }

\* what is dragged over the window: nothing the event exposes, a text, one
\* file, two files
DragData ==
    { NoDataTransfer,
      DataTransfer(TRUE, <<>>),
      DataTransfer(FALSE, <<ExampleFile>>),
      DataTransfer(FALSE, <<StepOneFile, ExampleFile>>),
      DataTransfer(TRUE, <<TruncatedFile, StepOneFile>>) }

\* where the pointer went at a dragleave: out of the window, or to an element
RelatedTargets == {"null", "textarea"}

\* the characters of the questions makeFieldId is called with
QuestionChars == {"a", "B", "1", " ", "-", "?", "U+00E9", "U+00C9", "U+0301"}

\* length of those questions
MaxLen == 3

Questions == UNION {[1..n -> QuestionChars] : n \in 0..MaxLen}

PageIndexes == {0, 1}

\* the FileList of the file input: empty, or the one file chosen
handleFileInput(files) == handleFiles(files) /\ UNCHANGED dragActive

(***************************************************************************)
(* Specifications                                                          *)
(***************************************************************************)
NoEvent == [type |-> "none"]

Click(target) == [type |-> "click", target |-> target]

\* App is mounted and nothing has happened yet
InitSession ==
    /\ currentStep = Num(0)
    /\ answers = <<>>
    /\ statusMessage = NoMessage
    /\ dragActive = FALSE
    /\ timers = {}
    /\ reads = <<>>
    /\ running = NotRunning
    /\ dragEffect = [live |-> TRUE, run |-> 1]
    /\ listeners = AddDragListeners(1, {})
    /\ event = NoEvent
    /\ download = NoDownload
    /\ settled = <<>>

Init == InitSession /\ call = NoCall

\* what a step of App leaves alone besides its own state
Frame == UNCHANGED <<listeners, dragEffect, running, call>>

\* a step whose event is not recorded
Rest == Frame /\ event' = NoEvent

InputChange ==
    /\ \E id \in AllFieldIds, v \in Values : handleInputChange(id, v)
    /\ UNCHANGED settled /\ Rest

GoTo ==
    /\ \E n \in StepInputs : goToStep(Num(n))
    /\ UNCHANGED settled /\ Rest

Back == handleBack /\ UNCHANGED settled /\ Rest

\* the primary button; an export here is not kept as a file
NextButton ==
    /\ \E ts \in Timestamps, throws \in BOOLEAN : handleNext(ts, throws, FALSE)
    /\ UNCHANGED settled /\ Rest

\* the export button; the file is offered and not kept
Export ==
    /\ \E ts \in Timestamps, throws \in BOOLEAN : handleExport(ts, throws, FALSE)
    /\ UNCHANGED settled /\ Rest

\* the file input changes to one of `files`
ChooseFile(files) ==
    /\ \E f \in files : handleFileInput(<<f>>)
    /\ UNCHANGED settled /\ Rest

\* the file input changes to no file
ChooseNothing == handleFileInput(<<>>) /\ UNCHANGED settled /\ Rest

Settle ==
    /\ \E i \in 1..MaxReads : ReadSettles(i)
    /\ UNCHANGED settled /\ Rest

Timeout ==
    /\ \E h \in 1..MaxMessageIds : TimerFires(h)
    /\ UNCHANGED settled /\ Rest

\* the session: navigation, edits, exports, and imports that may overlap
Next ==
    \/ InputChange
    \/ GoTo
    \/ Back
    \/ NextButton
    \/ Export
    \/ ChooseFile(CoreFiles)
    \/ ChooseNothing
    \/ Settle
    \/ Timeout

Spec == Init /\ [][Next]_vars

\* untrusted documents of every shape, imported one at a time
NextImport ==
    \/ InputChange
    \/ GoTo
    \/ reads = <<>> /\ ChooseFile(RejectedFiles \cup AcceptedFiles)
    \/ Settle
    \/ Timeout

SpecImport == Init /\ [][NextImport]_vars

\* exported documents are kept and imported back, one at a time, into a
\* session that also imports a foreign document
ExportKept ==
    /\ \E ts \in Timestamps : handleExport(ts, FALSE, TRUE)
    /\ UNCHANGED settled /\ Rest

NextRoundTrip ==
    \/ InputChange
    \/ GoTo
    \/ reads = <<>> /\ ExportKept
    \/ reads = <<>> /\ download # NoDownload /\ ChooseFile({DownloadFile})
    \/ reads = <<>> /\ ChooseFile({ExampleFile})
    \/ Settle
    \/ Timeout

SpecRoundTrip == Init /\ [][NextRoundTrip]_vars

\* a burst of at most MaxReads imports, with the order of settling recorded
ChooseFileRecorded ==
    /\ reads # <<>> => Len(reads) + Len(settled) < MaxReads
    /\ \E f \in OverlapFiles : handleFileInput(<<f>>)
    /\ settled' = IF reads = <<>> THEN <<>> ELSE settled
    /\ Rest

SettleRecorded ==
    \E i \in 1..MaxReads :
        /\ ReadSettles(i)
        /\ settled' = Append(settled, [file |-> reads[i], pos |-> i, of |-> Len(reads)])
        /\ Rest

NextOverlap ==
    \/ InputChange
    \/ GoTo
    \/ ChooseFileRecorded
    \/ SettleRecorded
    \/ Timeout

SpecOverlap == Init /\ [][NextOverlap]_vars

\* the session with a timeout that fires once it is due
LiveSpec == Spec /\ WF_vars(Timeout)

\* the buttons, the breadcrumbs and the textareas, each step recorded with
\* its event; kept: the user keeps the files that exports offer
ClickNext(kept) ==
    /\ \E ts \in Timestamps, throws \in BOOLEAN : handleNext(ts, throws, kept)
    /\ event' = Click("next")
    /\ UNCHANGED settled /\ Frame

ClickBack ==
    /\ handleBack
    /\ event' = Click("back")
    /\ UNCHANGED settled /\ Frame

ClickExport(kept) ==
    /\ \E ts \in Timestamps, throws \in BOOLEAN : handleExport(ts, throws, kept)
    /\ event' = Click("export")
    /\ UNCHANGED settled /\ Frame

ClickBreadcrumb ==
    /\ \E index \in 0..summaryStepIndex :
          /\ goToStep(Num(index))
          /\ event' = [type |-> "click", target |-> "breadcrumb", index |-> index]
    /\ UNCHANGED settled /\ Frame

TypeAnswer ==
    /\ \E id \in AllFieldIds, v \in Values :
          /\ handleInputChange(id, v)
          /\ event' = [type |-> "input", target |-> id, value |-> v]
    /\ UNCHANGED settled /\ Frame

\* navigation, edits and exports whose files are kept
NextEvents ==
    \/ ClickNext(TRUE)
    \/ ClickBack
    \/ ClickExport(TRUE)
    \/ ClickBreadcrumb
    \/ TypeAnswer
    \/ Timeout

SpecEvents == Init /\ [][NextEvents]_vars

\* navigation in a session that also imports a document with a fractional
\* step; the primary button is the only way to export
NextNav ==
    \/ ClickNext(TRUE)
    \/ ClickBack
    \/ ClickBreadcrumb
    \/ TypeAnswer
    \/ reads = <<>> /\ ChooseFile({FractionFile})
    \/ Settle
    \/ Timeout

SpecNav == Init /\ [][NextNav]_vars

\* drags over the window and drops on it
DragOver ==
    /\ \E dt \in DragData : Dispatch(DragEvent("dragover", dt, "null"))
    /\ UNCHANGED settled /\ Frame

DragLeave ==
    /\ \E dt \in DragData, to \in RelatedTargets : Dispatch(DragEvent("dragleave", dt, to))
    /\ UNCHANGED settled /\ Frame

Drop ==
    /\ \E dt \in DragData : Dispatch(DragEvent("drop", dt, "null"))
    /\ UNCHANGED settled /\ Frame

NextDrag ==
    \/ InputChange
    \/ DragOver
    \/ DragLeave
    \/ Drop
    \/ Settle
    \/ Timeout

SpecDrag == Init /\ [][NextDrag]_vars

\* App is unmounted and mounted again while files are dragged and dropped
Mounts == Mount /\ UNCHANGED <<call, settled>> /\ event' = NoEvent

Unmounts == Unmount /\ UNCHANGED <<call, settled>> /\ event' = NoEvent

NextMount ==
    \/ Mounts
    \/ Unmounts
    \/ dragEffect.live /\ InputChange
    \/ DragOver
    \/ DragLeave
    \/ Drop
    \/ Settle
    \/ Timeout

SpecMount == Init /\ [][NextMount]_vars

\* the import continuation taken setter by setter; the event loop takes an
\* event only while no call is on the stack
EventLoop == Suspended(running.at)

Resumes ==
    /\ \E i \in 1..MaxReads : ImportResumes(i)
    /\ event' = NoEvent
    /\ UNCHANGED <<listeners, dragEffect, call, settled>>

GoesToStep ==
    /\ ImportGoesToStep
    /\ event' = NoEvent
    /\ UNCHANGED <<listeners, dragEffect, call, settled>>

SetsSuccess ==
    /\ ImportSetsSuccess
    /\ event' = NoEvent
    /\ UNCHANGED <<listeners, dragEffect, call, settled>>

NextAtomic ==
    \/ EventLoop /\ InputChange
    \/ EventLoop /\ GoTo
    \/ EventLoop /\ Export
    \/ EventLoop /\ ChooseFile(OverlapFiles)
    \/ EventLoop /\ Drop
    \/ EventLoop /\ Timeout
    \/ Resumes
    \/ GoesToStep
    \/ SetsSuccess

SpecAtomic == Init /\ [][NextAtomic]_vars

\* calls of makeFieldId on questions and page indexes of every shape
InitFieldId ==
    /\ InitSession
    /\ call \in {[pageIndex |-> p, question |-> q, returned |-> <<>>] :
                    p \in PageIndexes, q \in Questions}

NextFieldId ==
    /\ CallMakeFieldId
    /\ UNCHANGED <<currentStep, answers, statusMessage, dragActive, timers, reads,
                   running, listeners, dragEffect, event, download, settled>>

SpecFieldId == InitFieldId /\ [][NextFieldId]_vars

\* one import at a time, pending while the user edits and navigates; the
\* observer notes whether the session changed between the start of the
\* import and the completion of its read, and the session the import leaves
PendingFiles == {ExampleFile, StepOneFile}

ChooseFileNoted ==
    /\ reads = <<>>
    /\ \E f \in PendingFiles : handleFileInput(<<f>>)
    /\ settled' = <<[edited |-> FALSE, moved |-> FALSE, done |-> FALSE]>>
    /\ Rest

InputChangeNoted ==
    /\ \E id \in AllFieldIds, v \in Values : handleInputChange(id, v)
    /\ settled' = IF reads # <<>> /\ answers' # answers
                  THEN <<[settled[1] EXCEPT !.edited = TRUE]>>
                  ELSE settled
    /\ Rest

GoToNoted ==
    /\ \E n \in StepInputs : goToStep(Num(n))
    /\ settled' = IF reads # <<>> /\ currentStep' # currentStep
                  THEN <<[settled[1] EXCEPT !.moved = TRUE]>>
                  ELSE settled
    /\ Rest

SettleNoted ==
    /\ \E i \in 1..MaxReads :
          /\ ReadSettles(i)
          /\ settled' = <<[edited |-> settled[1].edited, moved |-> settled[1].moved,
                           done |-> TRUE, text |-> reads[i].text,
                           after |-> [step |-> currentStep', answers |-> AsMap(answers')]]>>
    /\ Rest

NextPending ==
    \/ InputChangeNoted
    \/ GoToNoted
    \/ ChooseFileNoted
    \/ SettleNoted
    \/ Timeout

SpecPending == Init /\ [][NextPending]_vars

(***************************************************************************)
(* Claims                                                                  *)
(***************************************************************************)
\* the step is the settling of the read reads[i]
Settles(i) == i \in 1..Len(reads) /\ reads' = Remove(reads, i)

\* the step is an import that succeeded
ImportSucceeds(i) ==
    /\ Settles(i)
    /\ statusMessage' # statusMessage
    /\ statusMessage'.text = ImportOkText

\* C1: in every reachable state the current step is an integer in
\* [0, pageCount], whatever was navigated, edited or imported.
C1_StepIsIntegerInRange ==
    /\ IsInteger(currentStep)
    /\ currentStep.x \in 0..(summaryStepIndex * Unit)

\* a text that is not well formed, or whose value is not an object, or
\* whose object has no answers field
C2_Refused(text) ==
    LET j == JSONparse(text)
    IN  \/ ~j.ok
        \/ j.v.t # "obj"
        \/ "answers" \notin Keys(j.v.o)

\* C2: an import of a text that is not well formed, is not an object or has
\* no answers field leaves answers and the step as they were and shows an
\* error message.
C2_RefusedImportChangesNothing ==
    [][\A i \in 1..MaxReads :
          (Settles(i) /\ reads[i].readable /\ C2_Refused(reads[i].text))
          => /\ answers' = answers
             /\ currentStep' = currentStep
             /\ statusMessage' # statusMessage
             /\ statusMessage'.type = "error"]_vars

\* a refused document was imported into a session that had answers and a step
C2_Witness ==
    /\ statusMessage.text = ImportFailedText
    /\ reads = <<>>
    /\ answers # <<>>
    /\ currentStep # Num(0)

\* the string-valued entries of the answers of a document, as a map
C4_StringEntries(text) ==
    LET es == ObjectEntries(Get(JSONparse(text).v, "answers"))
        keep == {n \in 1..Len(es) : es[n].v.t = "str"}
    IN  [key \in {es[n].k : n \in keep} |-> Own(es, key)]

\* C4: after a successful import the answer map is exactly the string-valued
\* entries of the document's answers: all of them, and nothing else.
C4_ImportKeepsExactlyStringEntries ==
    [][\A i \in 1..MaxReads :
          ImportSucceeds(i) => AsMap(answers') = C4_StringEntries(reads[i].text)]_vars

\* a finite number clamped into [0, pageCount]
C5_Clamped(n) ==
    IF n.x < 0 THEN Num(0)
    ELSE IF n.x > summaryStepIndex * Unit THEN Num(summaryStepIndex)
    ELSE n

\* the step C5 states for a currentStep: a finite number clamped, else 0
C5_FiniteOrZero(cs) ==
    IF cs.t = "num" /\ cs.n.k = "fin" THEN C5_Clamped(cs.n) ELSE Num(0)

\* the step the code gives: any number but NaN clamped (an infinity to the
\* end it lies beyond), anything that is not a number 0
C5_NumberOrZero(cs) ==
    IF cs.t # "num" \/ cs.n.k = "nan" THEN Num(0)
    ELSE IF cs.n.k = "+inf" THEN Num(summaryStepIndex)
    ELSE IF cs.n.k = "-inf" THEN Num(0)
    ELSE C5_Clamped(cs.n)

C5_DocStep(text) == Get(JSONparse(text).v, "currentStep")

\* C5 as stated: a successful import applies currentStep only if it is a
\* finite number, clamped into [0, pageCount], and 0 for anything else.
C5_OnlyFiniteStepAccepted ==
    [][\A i \in 1..MaxReads :
          ImportSucceeds(i)
          => currentStep' = C5_FiniteOrZero(C5_DocStep(reads[i].text))]_vars

\* C5 as amended: a successful import applies currentStep if it is a number,
\* an infinite one included, clamped into [0, pageCount], and 0 for anything
\* that is not a number.
C5_AnyNumberStepAccepted ==
    [][\A i \in 1..MaxReads :
          ImportSucceeds(i)
          => currentStep' = C5_NumberOrZero(C5_DocStep(reads[i].text))]_vars

\* an import has just moved the session to the summary step
C5_Witness ==
    /\ statusMessage.text = ImportOkText
    /\ reads = <<>>
    /\ currentStep = Num(summaryStepIndex)
    /\ answers = <<[k |-> "x", v |-> JStr("y")]>>

\* C6: every key of the answer map is mapped to a string.
C6_AnswersAreStrings == \A n \in 1..Len(answers) : answers[n].v.t = "str"

\* the document with entries of every type was imported: its strings stayed
C6_Witness ==
    /\ statusMessage.text = ImportOkText
    /\ Keys(answers) = {"f"}

\* C3: importing the document exported from (step, answers) succeeds and
\* leaves the answer map equal to answers and the step equal to step,
\* whatever the session held when the read settled.
C3_RoundTrip ==
    [][\A i \in 1..MaxReads :
          (Settles(i) /\ "origin" \in DOMAIN reads[i])
          => /\ AsMap(answers') = AsMap(reads[i].origin.answers)
             /\ currentStep' = reads[i].origin.step
             /\ statusMessage' # statusMessage
             /\ statusMessage'.type = "success"]_vars

\* a kept export with two answers, made away from step 0, was imported back
C3_Witness ==
    /\ statusMessage.text = ImportOkText
    /\ reads = <<>>
    /\ download # NoDownload
    /\ Len(download.answers) = 2
    /\ download.step # Num(0)
    /\ answers = download.answers
    /\ currentStep = download.step

\* a file whose import succeeds: readable, an object, with answers
C7_Usable(f) ==
    /\ f.readable
    /\ ~C2_Refused(f.text)
    /\ Truthy(Get(JSONparse(f.text).v, "answers"))

\* C7: overlapping imports are applied in the order their reads settle: the
\* read that settles, whether it was started before or after the others that
\* are pending or already settled, makes the session that of its own file.
C7_LastSettledWins ==
    [][\A i \in 1..MaxReads :
          (Settles(i) /\ C7_Usable(reads[i]))
          => /\ AsMap(answers') = C4_StringEntries(reads[i].text)
             /\ currentStep' = C5_NumberOrZero(C5_DocStep(reads[i].text))]_vars

\* two imports overlapped, the one started second settled first, and the
\* session is that of the one started first, which settled last
C7_Witness ==
    /\ reads = <<>>
    /\ Len(settled) = 2
    /\ settled[1] = [file |-> ExampleFile, pos |-> 2, of |-> 2]
    /\ settled[2] = [file |-> StepOneFile, pos |-> 1, of |-> 1]
    /\ answers = <<[k |-> "k", v |-> JStr("v")]>>
    /\ currentStep = Num(1)

\* C8: the only pending timeout is the one set for the message now shown:
\* none without a message, never two, never one set for an earlier message.
C8_OnlyTheTimeoutOfTheMessage ==
    timers = IF statusMessage = NoMessage THEN {} ELSE {statusMessage.id}

\* a message replaced an unexpired one, whose timeout is gone
C8_Witness ==
    /\ statusMessage.id = 2
    /\ timers = {2}

\* C9: a message that is shown is removed: its timeout clears it unless a
\* newer message took its place before.
C9_MessageIsRemoved ==
    \A id \in 1..MaxMessageIds :
        (statusMessage.id = id) ~> (statusMessage.id # id)

\* the message of a finished import was shown and is gone, with its timeout
C9_Witness ==
    /\ answers = <<[k |-> "x", v |-> JStr("y")]>>
    /\ reads = <<>>
    /\ statusMessage = NoMessage
    /\ timers = {}

\* a file whose import fails: unreadable, or refused by parseImport
C10_Unusable(f) ==
    \/ ~f.readable
    \/ C2_Refused(f.text)
    \/ ~Truthy(Get(JSONparse(f.text).v, "answers"))

\* C10: a read that settles always shows a new message: of kind error, with
\* answers and step untouched, when the file is unreadable or refused, and
\* of kind success otherwise; an export shows a success or an error message
\* and touches neither answers nor step.
C10_OutcomeIsReported ==
    [][/\ \A i \in 1..MaxReads :
             Settles(i)
             => /\ statusMessage' # statusMessage
                /\ IF C10_Unusable(reads[i])
                   THEN /\ statusMessage'.type = "error"
                        /\ answers' = answers
                        /\ currentStep' = currentStep
                   ELSE statusMessage'.type = "success"
       /\ (reads' = reads /\ statusMessage' # statusMessage /\ statusMessage' # NoMessage)
             => /\ answers' = answers
                /\ currentStep' = currentStep
                /\ \/ statusMessage'.type = "success" /\ statusMessage'.text = ExportOkText
                   \/ statusMessage'.type = "error" /\ statusMessage'.text = ExportFailedText]_vars

\* an unreadable or refused file was reported while another read was pending
C10_Witness ==
    /\ statusMessage.type = "error"
    /\ statusMessage.text = ImportFailedText
    /\ Len(reads) = 1
    /\ answers # <<>>

\* C11: a click on the primary button at the summary step exports (a new
\* message reports it and, on success, the file holds the session) and leaves
\* the step where it is; at any other step of the form it exports nothing and
\* the step becomes the current step plus one.
C11_NextExportsOrAdvances ==
    [][(event' = Click("next") /\ IsInteger(currentStep))
       => IF currentStep = Num(summaryStepIndex)
          THEN /\ currentStep' = currentStep
               /\ statusMessage' # statusMessage
               /\ \/ /\ statusMessage'.text = ExportOkText
                     /\ download' # NoDownload
                     /\ download'.step = currentStep
                     /\ download'.answers = answers
                  \/ /\ statusMessage'.text = ExportFailedText
                     /\ download' = download
          ELSE /\ currentStep' = NumPlus(currentStep, 1)
               /\ statusMessage' = statusMessage
               /\ download' = download]_vars

\* the primary button was clicked at the summary step of a session with an
\* answer: the export is reported and the step is still the summary
C11_Witness ==
    /\ event = Click("next")
    /\ currentStep = Num(summaryStepIndex)
    /\ statusMessage.text = ExportOkText
    /\ download # NoDownload
    /\ download.step = Num(summaryStepIndex)
    /\ download.answers = answers
    /\ answers # <<>>

\* C12: a click on the back button at step 0 leaves the step at 0; at any
\* step s > 0 of the form, the summary included, the step becomes s - 1.
C12_BackDecrementsOrStays ==
    [][(event' = Click("back") /\ IsInteger(currentStep))
       => currentStep' = IF currentStep = Num(0) THEN Num(0)
                         ELSE NumPlus(currentStep, -1)]_vars

\* the back button was clicked at the summary step
C12_Witness ==
    /\ event = Click("back")
    /\ currentStep = Num(summaryStepIndex - 1)
    /\ download # NoDownload

\* the back handler ran at step 0
C12_WitnessAtZero ==
    /\ event = Click("back")
    /\ currentStep = Num(0)
    /\ answers = <<>>
    /\ download = NoDownload
    /\ statusMessage = NoMessage

\* the files a drag event is about
C13_Dropped(ev) ==
    IF ev.dataTransfer.kind = "null" THEN <<>> ELSE ev.dataTransfer.files

\* C13: a drop leaves dragActive false; a drop with files has its default
\* handling suppressed and starts exactly one import, that of the first
\* file; a drop without files starts none and leaves answers, step and
\* message as they were.
C13_DropClearsAndImportsFirst ==
    [][event'.type = "drop"
       => /\ dragActive' = FALSE
          /\ IF C13_Dropped(event') # <<>>
             THEN /\ event'.defaultPrevented
                  /\ reads' = Append(reads, C13_Dropped(event')[1])
             ELSE /\ reads' = reads
                  /\ answers' = answers
                  /\ currentStep' = currentStep
                  /\ statusMessage' = statusMessage]_vars

\* two files were dropped while another import was pending: the first of
\* them is read, the second is not
C13_Witness ==
    /\ event.type = "drop"
    /\ event.defaultPrevented
    /\ C13_Dropped(event) = <<StepOneFile, ExampleFile>>
    /\ reads = <<ExampleFile, StepOneFile>>
    /\ ~dragActive
    /\ answers # <<>>

\* a drag event that carries file data
C18_CarriesFiles(ev) == C13_Dropped(ev) # <<>>

\* what C18 says of each drag-over and drag-leave
C18_EachEvent ==
    /\ event'.type = "dragover"
          => dragActive' = IF C18_CarriesFiles(event') THEN TRUE ELSE dragActive
    /\ event'.type = "dragleave"
          => dragActive' = IF event'.relatedTarget = "null" THEN FALSE ELSE dragActive
    /\ event'.type \in {"dragover", "dragleave"}
          => /\ answers' = answers
             /\ currentStep' = currentStep
             /\ statusMessage' = statusMessage

\* C18 as stated: a drag-over with file data sets dragActive, one without
\* leaves it; a drag-leave out of the window clears it, one to an element
\* leaves it; neither touches answers, step or message; and dragActive
\* changes on no other event.
C18_ChangesOnlyOnOverAndLeave ==
    [][/\ C18_EachEvent
       /\ dragActive' # dragActive => event'.type \in {"dragover", "dragleave"}]_vars

\* C18 as amended: the same of drag-over and drag-leave, and dragActive
\* changes on no other event than these and a drop, which clears it.
C18_ChangesOnlyOnDragEvents ==
    [][/\ C18_EachEvent
       /\ dragActive' # dragActive => event'.type \in {"dragover", "dragleave", "drop"}
       /\ (dragActive' # dragActive /\ event'.type = "drop") => ~dragActive']_vars

\* the pointer moved onto an element while files were dragged over a
\* session with an answer: the overlay stayed
C18_Witness ==
    /\ event.type = "dragleave"
    /\ event.relatedTarget = "textarea"
    /\ C18_CarriesFiles(event)
    /\ dragActive
    /\ answers # <<>>

\* C14: through every cycle of mounts and teardowns, the window holds one
\* dragover, one dragleave and one drop listener while App is mounted, each
\* created by the mount that is live, and none after a teardown.
C14_OneSetOfListenersWhileMounted ==
    IF dragEffect.live
    THEN /\ Cardinality(listeners) = 3
         /\ \A t \in {"dragover", "dragleave", "drop"} :
               [type |-> t, fn |-> dragEffect.run] \in listeners
    ELSE listeners = {}

\* App was mounted for the third time, after two teardowns, and files were
\* dragged over it
C14_Witness ==
    /\ dragEffect = [live |-> TRUE, run |-> 3]
    /\ Cardinality(listeners) = 3
    /\ dragActive

\* App was torn down for the second time
C14_WitnessTornDown ==
    /\ dragEffect = [live |-> FALSE, run |-> 2]
    /\ listeners = {}

\* what a character of a question brings to the slug: its letter without
\* case and accent, its digit, nothing for a combining mark, and "-" for
\* any other character
C15_Folded ==
    [c \in QuestionChars |->
        CASE c = "a" -> "a"
          [] c = "B" -> "b"
          [] c = "1" -> "1"
          [] c \in {"U+00E9", "U+00C9"} -> "e"
          [] c = "U+0301" -> ""
          [] OTHER -> "-"]

\* the slug of a question: its letters and digits, with one hyphen wherever
\* other characters lie between two of them
C15_Slug(question) ==
    LET d == SelectSeq([i \in 1..Len(question) |-> C15_Folded[question[i]]],
                       LAMBDA c : c # "")
        part(i) ==
            IF d[i] = "-" THEN ""
            ELSE IF i > 1 /\ d[i - 1] = "-" /\ (\E j \in 1..(i - 1) : d[j] # "-")
                 THEN "-" \o d[i]
                 ELSE d[i]
    IN  Join([i \in 1..Len(d) |-> part(i)])

\* C15: every call of makeFieldId returns "step-", the page index, "-" and
\* the slug of the question, the same at each call with the same arguments;
\* with an empty slug that is "step-{pageIndex}-".
C15_FieldIdIsStepAndSlug ==
    \A n \in 1..Len(call.returned) :
        call.returned[n] =
            "step-" \o ToString(call.pageIndex) \o "-" \o C15_Slug(call.question)

\* makeFieldId was called twice on a question with an upper-case letter, a
\* space and an accented letter
C15_Witness ==
    /\ call.pageIndex = 1
    /\ call.question = <<"B", " ", "U+00E9">>
    /\ call.returned = <<"step-1-b-e", "step-1-b-e">>

\* makeFieldId was called twice on a question without a letter or digit
C15_WitnessEmptySlug ==
    /\ call.pageIndex = 0
    /\ call.question = <<"?", " ", "-">>
    /\ call.returned = <<"step-0-", "step-0-">>

\* C16: no other pair of page index and question has the identifier that
\* makeFieldId returned for this one.
C16_FieldIdsAreUnique ==
    \A n \in 1..Len(call.returned) :
        \A p \in PageIndexes, q \in Questions :
            <<p, q>> # <<call.pageIndex, call.question>>
                => makeFieldId(p, q) # call.returned[n]

\* C17: an import that succeeds is not observed half done: every step of a
\* handler other than the import itself (an edit, a navigation, an export,
\* a file choice, a drop, a timeout) starts in a state in which no import
\* stands between its setters.
C17_NoHandlerSeesHalfAnImport ==
    [][running' = running => running.at = "await"]_vars

\* the import of the example stands between setAnswers and goToStep: the
\* answers are those of the file, the step is still that of the session
C17_Witness ==
    /\ running = [at |-> "goToStep", step |-> Num(summaryStepIndex)]
    /\ AsMap(answers) = C4_StringEntries(ExampleFile.text)
    /\ currentStep = Num(0)
    /\ Len(reads) = 1

\* C19: the session an import leaves is that of its file alone: the answers
\* are the string entries of the document and the step is the document's,
\* whether or not the user edited or navigated between the start of the
\* import and the completion of its read.
C19_ImportLeavesTheSessionOfTheFile ==
    \A n \in 1..Len(settled) :
        settled[n].done
            => settled[n].after =
                  [step |-> C5_NumberOrZero(C5_DocStep(settled[n].text)),
                   answers |-> C4_StringEntries(settled[n].text)]

\* an import completed after the user had typed an answer and moved to
\* another step while its read was pending: both are gone
C19_Witness ==
    /\ Len(settled) = 1
    /\ settled[1].done
    /\ settled[1].text = ExampleFile.text
    /\ settled[1].edited
    /\ settled[1].moved
    /\ reads = <<>>
    /\ statusMessage.text = ImportOkText
    /\ Keys(answers) = {"x"}
    /\ currentStep = Num(summaryStepIndex)

\* the document an export step offered
C20_Document == JSONparse(download'.text).v

\* C20: a breadcrumb, the primary button and the back button leave the
\* answers as they are; typing into a field sets the entry of that field and
\* leaves the step and every other entry; an export leaves answers and step,
\* and the document it offers holds the answers and the step of the session
\* it was made in.
C20_FrameOfTheSession ==
    [][/\ event'.type = "click" => answers' = answers
       /\ event'.type = "input"
             => /\ currentStep' = currentStep
                /\ Keys(answers') = Keys(answers) \cup {event'.target}
                /\ Own(answers', event'.target) = JStr(event'.value)
                /\ \A key \in Keys(answers) \ {event'.target} :
                      Own(answers', key) = Own(answers, key)
       /\ (event'.type = "click" /\ statusMessage' # statusMessage)
             => /\ currentStep' = currentStep
                /\ statusMessage'.text = ExportOkText
                      => /\ download' # NoDownload
                         /\ AsMap(Get(C20_Document, "answers").o) = AsMap(answers)
                         /\ Get(C20_Document, "currentStep") = JNum(currentStep)]_vars

\* the session was exported at step 1 with both answers typed, the second
\* one on that step: the document holds both
C20_Witness ==
    /\ event = Click("export")
    /\ statusMessage.text = ExportOkText
    /\ currentStep = Num(1)
    /\ Keys(answers) = AllFieldIds
    /\ \A key \in Keys(answers) : Own(answers, key) = JStr("Acme")
    /\ download # NoDownload
    /\ AsMap(Get(JSONparse(download.text).v, "answers").o) = AsMap(answers)
    /\ Get(JSONparse(download.text).v, "currentStep") = JNum(Num(1))

====
